---- MODULE Spec2Model ----
(***************************************************************************)
(* Model of pymed/pymed.py: PubmedRecord (a dict subclass) and Records (a  *)
(* list subclass carrying the side-channel list exclude_).                 *)
(*                                                                         *)
(* The code is Python 2 (iteritems, __getslice__); list, dict, set and     *)
(* json semantics are those of CPython 2.                                  *)
(*                                                                         *)
(* Seven specifications share the variables:                               *)
(*   Spec        the mutating methods of one Records collection            *)
(*   SpecSelect  slicing, filtering and find on collections of records     *)
(*   SpecFile    save and read_records on collections of records           *)
(*   SpecSet     + and set() on collections of records                     *)
(*   SpecBrowse  browse on collections of records                          *)
(*   SpecRecord  year, pubmed_id and get_doi of one record                 *)
(*   SpecSummary __repr__ on collections of records with and without year  *)
(* op, err and ret record the last call, the exception it raised and the   *)
(* value it returned; for browse, which returns None, ret is what the      *)
(* terminal showed and how many answers were read from it.                 *)
(*                                                                         *)
(* A Python object stored in a Records list is modelled as                 *)
(*   [cls |-> its class, d |-> its content]                                *)
(* where for a PubmedRecord d is the field mapping (a function whose       *)
(* DOMAIN is the set of field codes present) and field values are strings; *)
(* the values of AID, SO and LID, which may be a string or a list of       *)
(* strings, carry their class as well.                                     *)
(***************************************************************************)
EXTENDS Integers, Sequences, FiniteSets, TLC

VARIABLES recs, exclude_, file, op, err, ret

vars == <<recs, exclude_, file, op, err, ret>>

\* ---------------------------------------------------------------- bounds
MaxLen == 3      \* longest Records list explored
MaxVals == 2     \* longest iterable handed to extend and to Records()

\* ------------------------------------------------------------ Python bits
None == "None"

\* the content of a file that was not written
NoFile == [t |-> "missing", v |-> <<>>]

Range(s) == {s[k] : k \in 1..Len(s)}

PubmedRecord(mapping) == [cls |-> "PubmedRecord", d |-> mapping]

isinstance(v, cls) == v.cls = cls

\* dict.get(key, default)
get(rec, key, default) == IF key \in DOMAIN rec.d THEN rec.d[key] ELSE default

pubmed_id(rec) == get(rec, "PMID", None)

\* the objects the model stores in collections
rA  == PubmedRecord([PMID |-> "1", TI |-> "ab"])
rB  == PubmedRecord([PMID |-> "2", TI |-> "ba"])
rB2 == PubmedRecord([PMID |-> "2", TI |-> "a"])
rN  == PubmedRecord([TI |-> "b"])
foo == [cls |-> "str", d |-> [s |-> "foo"]]

\* what the mutating calls are handed: records and one object that is not
Items == {rA, rB, foo}

\* the records of the collections that are sliced, searched and combined
RecordItems == {rA, rB}

\* the records of the collections that are saved: one lacks the PMID
SavedItems == {rA, rB, rB2, rN}

\* sequences over S of length at most n
SeqsUpTo(S, n) == UNION {[1..k -> S] : k \in 0..n}

\* an argument handed where a Records is expected: a Records or a plain list
Operand(cls, items) == [cls |-> cls, items |-> items]

\* the iterables handed to extend and to Records()
Iterables == SeqsUpTo({rA, foo}, MaxVals)

\* the right operands of + and +=: Records, and the plain lists that
\* recs.tolist() gives
Operands ==
    {Operand(c, s) : c \in {"Records", "list"}, s \in {<<>>, <<rA>>, <<foo>>}}

\* the right operands of the collections of records that are combined
RecordOperands ==
    {Operand(c, s) : c \in {"Records", "list"}, s \in {<<>>, <<rB>>, <<rB2>>}}

\* ------------------------------------------------------- results of calls
Obj(rs, ex) == [recs |-> rs, exclude_ |-> ex]

Result(rs, ex, e, r) == [recs |-> rs, exclude_ |-> ex, err |-> e, ret |-> r]

Raise(self, e) == Result(self.recs, self.exclude_, e, None)

Call(name, args) == [name |-> name, args |-> args]

\* --------------------------------------------------------- list builtins
\* list.insert(self, index, x): negative indices count from the end, and
\* the position is clamped to [0, len]
list_insert(lst, index, x) ==
    LET n == Len(lst)
        p == IF index < 0
             THEN (IF n + index < 0 THEN 0 ELSE n + index)
             ELSE (IF index > n THEN n ELSE index)
    IN  SubSeq(lst, 1, p) \o <<x>> \o SubSeq(lst, p + 1, n)

\* del lst[p] for a 0-based position p in range
DelAt(lst, p) == SubSeq(lst, 1, p) \o SubSeq(lst, p + 2, Len(lst))

\* position (1-based) of the first element equal to x
FirstIndex(lst, x) == CHOOSE k \in 1..Len(lst) :
                         lst[k] = x /\ \A j \in 1..(k - 1) : lst[j] # x

\* list.remove(x): deletes the first element equal to x
list_remove(lst, x) == DelAt(lst, FirstIndex(lst, x) - 1)

\* ----------------------------------------------------- Records methods
\* insert that lets a record through at the end of the list
insert_guards_inner_positions(self, index, record) ==
    IF self.exclude_ # <<>> /\ index < Len(self.recs)
    THEN Raise(self, "RuntimeError")
    ELSE Result(list_insert(self.recs, index, record), self.exclude_, None, None)

\* Records.insert
insert(self, index, record) ==
    IF self.exclude_ # <<>>
    THEN Raise(self, "RuntimeError")
    ELSE Result(list_insert(self.recs, index, record), self.exclude_, None, None)

\* Records.append
append(self, value) ==
    IF ~isinstance(value, "PubmedRecord")
    THEN Raise(self, "TypeError")
    ELSE insert(self, Len(self.recs), value)

\* Records.extend
RECURSIVE extend(_, _)
extend(self, values) ==
    IF values = <<>>
    THEN Result(self.recs, self.exclude_, None, None)
    ELSE IF ~isinstance(Head(values), "PubmedRecord")
         THEN Raise(self, "ValueError")
         ELSE LET r == append(self, Head(values))
              IN  IF r.err # None THEN r
                  ELSE extend(Obj(r.recs, r.exclude_), Tail(values))

\* Records.__init__: ret is the constructed object (None when it raised)
Records(records) ==
    LET r == IF records # <<>> THEN extend(Obj(<<>>, <<>>), records)
             ELSE Result(<<>>, <<>>, None, None)
    IN  [err |-> r.err,
         ret |-> IF r.err = None THEN Obj(r.recs, r.exclude_) ELSE None]

\* Records.pop
pop(self, index) ==
    LET ex == IF index \in Range(self.exclude_)
              THEN list_remove(self.exclude_, index)
              ELSE self.exclude_
        n  == Len(self.recs)
        p  == IF index < 0 THEN index + n ELSE index
    IN  IF p < 0 \/ p >= n
        THEN Result(self.recs, ex, "IndexError", None)
        ELSE Result(DelAt(self.recs, p), ex, None, self.recs[p + 1])

\* the comprehension of Records.drop: enumerate(self) walks the live list
\* while self.remove(r) shrinks it; ii is the running count of enumerate
RECURSIVE drop_loop(_, _, _)
drop_loop(lst, ii, ex) ==
    IF ii >= Len(lst) THEN lst
    ELSE IF ii \in Range(ex)
         THEN drop_loop(list_remove(lst, lst[ii + 1]), ii + 1, ex)
         ELSE drop_loop(lst, ii + 1, ex)

\* Records.drop
drop(self) == Result(drop_loop(self.recs, 0, self.exclude_), <<>>, None, None)

\* Records.__iadd__
iadd(self, values) ==
    IF ~isinstance(values, "Records")
    THEN Raise(self, "TypeError")
    ELSE extend(self, values.items)

\* Records.__add__
add(self, other) ==
    IF ~isinstance(other, "Records")
    THEN Raise(self, "TypeError")
    ELSE LET n == Records(self.recs \o other.items)
         IN  Result(self.recs, self.exclude_, n.err, n.ret)

\* ------------------------------------------------------------ selection
\* list.__getslice__(self, i, j): CPython clamps both ends to the list
getslice(lst, i, j) ==
    LET n     == Len(lst)
        ilow  == IF i < 0 THEN 0 ELSE IF i > n THEN n ELSE i
        ihigh == IF j < ilow THEN ilow ELSE IF j > n THEN n ELSE j
    IN  SubSeq(lst, ilow + 1, ihigh)

\* a slice that carries the marks of its source along
getslice_keeps_exclude(self, i, j) ==
    LET n == Records(getslice(self.recs, i, j))
    IN  Result(self.recs, self.exclude_, n.err,
               IF n.err = None THEN Obj(n.ret.recs, self.exclude_) ELSE None)

\* Records.__getslice__
Records_getslice(self, i, j) ==
    LET n == Records(getslice(self.recs, i, j))
    IN  Result(self.recs, self.exclude_, n.err, n.ret)

\* the characters of the strings the model uses
Chars(s) ==
    CASE s = ""   -> <<>>
      [] s = "a"  -> <<"a">>
      [] s = "b"  -> <<"b">>
      [] s = "ab" -> <<"a", "b">>
      [] s = "ba" -> <<"b", "a">>
      [] s = ".a" -> <<".", "a">>
      [] s = "1"  -> <<"1">>
      [] s = "2"  -> <<"2">>
      [] s = "2014 Jan" ->
            <<"2", "0", "1", "4", " ", "J", "a", "n">>
      [] s = "1999" ->
            <<"1", "9", "9", "9">>
      [] s = "Spring" ->
            <<"S", "p", "r", "i", "n", "g">>
      [] s = "S1 [pii]" ->
            <<"S", "1", " ", "[", "p", "i", "i", "]">>
      [] s = "10.1234/a [doi]" ->
            <<"1", "0", ".", "1", "2", "3", "4", "/", "a", " ", "[", "d", "o", "i", "]">>
      [] s = "10.1234/c [pii]" ->
            <<"1", "0", ".", "1", "2", "3", "4", "/", "c", " ", "[", "p", "i", "i", "]">>
      [] s = "J 2014" ->
            <<"J", " ", "2", "0", "1", "4">>
      [] s = "J doi: 10.1234/b" ->
            <<"J", " ", "d", "o", "i", ":", " ", "1", "0", ".", "1", "2", "3", "4", "/", "b">>
      [] s = "10.1234/d [doi]" ->
            <<"1", "0", ".", "1", "2", "3", "4", "/", "d", " ", "[", "d", "o", "i", "]">>
      [] s = "10.1234/a" ->
            <<"1", "0", ".", "1", "2", "3", "4", "/", "a">>
      [] s = "10.1234/b" ->
            <<"1", "0", ".", "1", "2", "3", "4", "/", "b">>
      [] s = "10.1234/c" ->
            <<"1", "0", ".", "1", "2", "3", "4", "/", "c">>
      [] s = "10.1234/d" ->
            <<"1", "0", ".", "1", "2", "3", "4", "/", "d">>

\* the order in which the dict of a record yields its keys
FieldOrder == <<"PMID", "TI">>

\* PubmedRecord.as_corpus with fields=None: the values of the fields TI, AU
\* and AB, in the order the dict yields them, joined without separator
RECURSIVE corpus_from(_, _)
corpus_from(rec, k) ==
    IF k > Len(FieldOrder) THEN <<>>
    ELSE (IF FieldOrder[k] \in DOMAIN rec.d /\ FieldOrder[k] \in {"TI", "AU", "AB"}
          THEN Chars(rec.d[FieldOrder[k]]) ELSE <<>>) \o corpus_from(rec, k + 1)

as_corpus(rec) == corpus_from(rec, 1)

\* is_substring of PubmedRecord.match: str.isalnum() once '-', '_' and ' '
\* are removed (false for the empty string)
is_substring(regexp) ==
    LET kept == SelectSeq(Chars(regexp), LAMBDA c : c \notin {"-", "_", " "})
    IN  kept # <<>> /\ \A k \in 1..Len(kept) : kept[k] \in {"a", "b", "1", "2"}

\* re.match of a pattern made of literal characters and '.', at position 0
re_match_at_start(pat, text) ==
    /\ Len(pat) <= Len(text)
    /\ \A k \in 1..Len(pat) : pat[k] = "." \/ pat[k] = text[k]

\* PubmedRecord.match: '.*regexp.*' for a plain substring, else regexp
\* itself, matched from position 0 of the corpus
match(rec, regexp) ==
    LET text == as_corpus(rec)
        pat  == Chars(regexp)
    IN  IF is_substring(regexp)
        THEN \E k \in 0..(Len(text) - Len(pat)) :
                re_match_at_start(pat, SubSeq(text, k + 1, Len(text)))
        ELSE re_match_at_start(pat, text)

\* Records(r for r in self if pred(r)); pred is given by the set of objects
\* it accepts.  The generator is truthy, and extending by nothing is a no-op
Records_filter(self, accepted) ==
    LET n == Records(SelectSeq(self.recs, LAMBDA r : r \in accepted))
    IN  Result(self.recs, self.exclude_, n.err, n.ret)

\* Records.find
find(self, regexp) ==
    LET n == Records(SelectSeq(self.recs, LAMBDA r : match(r, regexp)))
    IN  Result(self.recs, self.exclude_, n.err, n.ret)

\* ----------------------------------------------------------------- json
\* [r for i, r in enumerate(records) if i not in records.exclude_]
RECURSIVE not_excluded(_, _, _)
not_excluded(lst, i, ex) ==
    IF i >= Len(lst) THEN <<>>
    ELSE (IF i \in Range(ex) THEN <<>> ELSE <<lst[i + 1]>>)
            \o not_excluded(lst, i + 1, ex)

\* json.dump of one list element: a dict becomes an object, a str a string
json_encode(x) ==
    IF isinstance(x, "PubmedRecord")
    THEN [t |-> "object",
          v |-> {<<k, [t |-> "string", v |-> x.d[k]]>> : k \in DOMAIN x.d}]
    ELSE [t |-> "string", v |-> {<<"", [t |-> "string", v |-> x.d.s]>>}]

\* json.dump of a list
json_dump(lst) == [t |-> "array", v |-> [k \in 1..Len(lst) |-> json_encode(lst[k])]]

\* json.load of one element with object_hook=PubmedRecord: every object is
\* handed to PubmedRecord as a dict, a string comes back as unicode
json_decode(j) ==
    IF j.t = "object"
    THEN PubmedRecord([k \in {m[1] : m \in j.v} |->
                          (CHOOSE m \in j.v : m[1] = k)[2].v])
    ELSE [cls |-> "unicode", d |-> [s |-> (CHOOSE m \in j.v : TRUE)[2].v]]

\* json.load(..., object_hook=PubmedRecord) of a document holding an array
json_load(doc) == [k \in 1..Len(doc.v) |-> json_decode(doc.v[k])]

\* write_records that dumps the marked records too
write_records_all(records) == json_dump(records.recs)

\* write_records: the content the file is left with
write_records(records) ==
    json_dump(not_excluded(records.recs, 0, records.exclude_))

\* read_records
read_records(content) == Records(json_load(content))

\* ------------------------------------------------------------------ set
\* PubmedRecord.__hash__: the hash of the PMID, or of None
hash(rec) == pubmed_id(rec)

\* set(iterable): an element is added unless the set holds one with the
\* same hash that compares equal (dict.__eq__: the same field mapping)
RECURSIVE py_set(_)
py_set(lst) ==
    IF lst = <<>> THEN {}
    ELSE LET s == py_set(SubSeq(lst, 1, Len(lst) - 1))
             x == lst[Len(lst)]
         IN  IF \E e \in s : hash(e) = hash(x) /\ e = x THEN s ELSE s \cup {x}

\* the orders in which a set may yield its elements
Orders(S) == {f \in [1..Cardinality(S) -> S] :
                \A i, j \in 1..Cardinality(S) : i # j => f[i] # f[j]}

\* Records(set(self + other)) when the set yields its elements in `order`
dedup(self, other, order) ==
    LET sum == add(self, other)
    IN  IF sum.err # None THEN sum
        ELSE LET n == Records(order)
             IN  Result(self.recs, self.exclude_, n.err, n.ret)

\* ---------------------------------------------------------------- state
Self == Obj(recs, exclude_)

Init ==
    /\ recs = <<>>
    /\ exclude_ = <<>>
    /\ file = NoFile
    /\ op = Call("__init__", <<>>)
    /\ err = None
    /\ ret = None

\* the explored lists are at most MaxLen long
Fits(r) == Len(r.recs) <= MaxLen

\* a call on the collection: the object takes the state the method left
Apply(call, r) ==
    /\ recs' = r.recs
    /\ exclude_' = r.exclude_
    /\ err' = r.err
    /\ ret' = r.ret
    /\ op' = call
    /\ UNCHANGED file

\* recs = Records(values): the name is rebound only if the constructor
\* returned
DoNew(values) ==
    LET r == Records(values)
    IN  /\ r.err = None => Len(r.ret.recs) <= MaxLen
        /\ recs' = IF r.err = None THEN r.ret.recs ELSE recs
        /\ exclude_' = IF r.err = None THEN r.ret.exclude_ ELSE exclude_
        /\ err' = r.err
        /\ ret' = None
        /\ op' = Call("__init__", <<>>)
        /\ UNCHANGED file

DoAppend(value) ==
    /\ Fits(append(Self, value))
    /\ Apply(Call("append", <<value>>), append(Self, value))

DoExtend(values) ==
    /\ Fits(extend(Self, values))
    /\ Apply(Call("extend", <<values>>), extend(Self, values))

DoInsert(index, record) ==
    /\ Fits(insert(Self, index, record))
    /\ Apply(Call("insert", <<index, record>>), insert(Self, index, record))

\* recs.exclude_.append(i) for a position of the list; positions are marked
\* in increasing order, as a pass over the list does
DoMark(i) ==
    /\ i \in 0..(Len(recs) - 1)
    /\ \A m \in Range(exclude_) : m < i
    /\ Apply(Call("mark", <<i>>), Result(recs, Append(exclude_, i), None, None))

DoDrop ==
    /\ Fits(drop(Self))
    /\ Apply(Call("drop", <<>>), drop(Self))

DoPop(index) ==
    /\ Fits(pop(Self, index))
    /\ Apply(Call("pop", <<index>>), pop(Self, index))

DoIAdd(values) ==
    /\ Fits(iadd(Self, values))
    /\ Apply(Call("__iadd__", <<values>>), iadd(Self, values))

DoAdd(other) ==
    /\ Fits(add(Self, other))
    /\ Apply(Call("__add__", <<other>>), add(Self, other))

Next ==
    \/ \E values \in Iterables : DoNew(values)
    \/ \E value \in Items : DoAppend(value)
    \/ \E values \in Iterables : DoExtend(values)
    \/ \E index \in (0 - 1)..MaxLen, record \in Items :
          DoInsert(index, record)
    \/ \E i \in 0..(MaxLen - 1) : DoMark(i)
    \/ DoDrop
    \/ \E index \in (0 - MaxLen - 1)..MaxLen : DoPop(index)
    \/ \E values \in Operands : DoIAdd(values)

Spec == Init /\ [][Next]_vars

\* ---------------------------------------- collections of records, queried
\* the marks a collection may carry: any positions, stale ones included
Marks == {ex \in SeqsUpTo(0..(MaxLen - 1), MaxLen) :
            \A k \in 1..(Len(ex) - 1) : ex[k] < ex[k + 1]}

InitOver(universe) ==
    /\ recs \in SeqsUpTo(universe, MaxLen)
    /\ exclude_ \in Marks
    /\ file = NoFile
    /\ op = Call("__init__", <<>>)
    /\ err = None
    /\ ret = None

InitRecords == InitOver(RecordItems)

InitSaved == InitOver(SavedItems)

\* recs[i:j]
DoSlice(i, j) ==
    /\ i <= MaxLen
    /\ Apply(Call("__getslice__", <<i, j>>), Records_getslice(Self, i, j))

DoFilter(accepted) ==
    /\ accepted \subseteq RecordItems
    /\ Apply(Call("filter", <<accepted>>), Records_filter(Self, accepted))

DoFind(regexp) ==
    /\ regexp \in STRING
    /\ Apply(Call("find", <<regexp>>), find(Self, regexp))

NextSelect ==
    \/ \E i \in (0 - 1)..MaxLen, j \in 0..MaxLen : DoSlice(i, j)
    \/ \E accepted \in SUBSET RecordItems : DoFilter(accepted)
    \/ \E regexp \in {"a", "ab", ".a", ""} : DoFind(regexp)

SpecSelect == InitRecords /\ [][NextSelect]_vars

\* recs.save(fname)
DoSave ==
    /\ file' = write_records(Self)
    /\ op' = Call("save", <<>>)
    /\ err' = None
    /\ ret' = None
    /\ UNCHANGED <<recs, exclude_>>

\* read_records(fname) of the file written before
DoLoad ==
    /\ file # NoFile
    /\ op' = Call("read_records", <<>>)
    /\ err' = read_records(file).err
    /\ ret' = read_records(file).ret
    /\ UNCHANGED <<recs, exclude_, file>>

NextFile == DoSave \/ DoLoad

SpecFile == InitSaved /\ [][NextFile]_vars

\* Records(set(recs + other))
DoDedup(other) ==
    LET sum == add(Self, other)
    IN  \E order \in (IF sum.err = None THEN Orders(py_set(sum.ret.recs))
                      ELSE {<<>>}) :
           /\ Fits(dedup(Self, other, order))
           /\ Apply(Call("dedup", <<other>>), dedup(Self, other, order))

NextSet ==
    \/ \E other \in RecordOperands : DoAdd(other)
    \/ \E other \in RecordOperands : DoDedup(other)

SpecSet == InitRecords /\ [][NextSet]_vars

\* ---------------------------------------------------------------- browse
\* x == n for an object of a collection and an index: never equal
eq_index(x, n) == isinstance(x, "int") /\ x.d = n

\* rec in self.exclude_
in_exclude(rec, ex) == \E k \in 1..Len(ex) : eq_index(rec, ex[k])

\* what browse printed and read: the indices of the records displayed, in
\* the order of display, and the number of answers read from the terminal
Terminal(shown, read) == [shown |-> shown, read |-> read]

\* the loop of browse from index idx on; answers is what input() returns,
\* call after call
RECURSIVE browse_loop(_, _, _, _, _)
browse_loop(self, idx, answers, remove_idx, tty) ==
    IF idx >= Len(self.recs)
    THEN [remove_idx |-> remove_idx, tty |-> tty]
    ELSE IF in_exclude(self.recs[idx + 1], self.exclude_)
         THEN browse_loop(self, idx + 1, answers, remove_idx, tty)
         ELSE LET res == answers[tty.read + 1]
                  out == Terminal(Append(tty.shown, idx), tty.read + 1)
              IN  IF res = "n"
                  THEN browse_loop(self, idx + 1, answers,
                                   remove_idx \o <<idx>>, out)
                  ELSE IF res = "q"
                       THEN [remove_idx |-> remove_idx, tty |-> out]
                       ELSE browse_loop(self, idx + 1, answers,
                                        remove_idx, out)

\* self.drop(*args): drop takes no argument
call_drop(self, args) ==
    IF args # <<>> THEN Raise(self, "TypeError") ELSE drop(self)

\* Records.browse(inplace=inplace); the value it returns is None, the
\* result carries the terminal's transcript in its place
browse(self, inplace, answers) ==
    LET l == browse_loop(self, 0, answers, <<>>, Terminal(<<>>, 0))
        dropped == call_drop(self, <<l.remove_idx>>)
    IN  IF inplace /\ self.exclude_ # <<>>
        THEN Result(dropped.recs, dropped.exclude_, dropped.err, l.tty)
        ELSE Result(self.recs,
                    SelectSeq(l.remove_idx,
                              LAMBDA i : i \notin Range(self.exclude_)),
                    None, l.tty)

\* the answers typed at the prompt
Answers == {"y", "n", "q"}

DoBrowse(inplace, answers) ==
    /\ answers \in [1..MaxLen -> Answers]
    /\ Apply(Call("browse", <<inplace, answers>>),
             browse(Self, inplace, answers))

NextBrowse ==
    \E inplace \in BOOLEAN, answers \in [1..MaxLen -> Answers] :
        DoBrowse(inplace, answers)

SpecBrowse == InitRecords /\ [][NextBrowse]_vars

\* ---------------------------------------------------- accessors of a record
\* Python values of several types, told apart by their class
PyNone == [cls |-> "NoneType"]

PyInt(i) == [cls |-> "int", i |-> i]

PyStr(s) == [cls |-> "str", s |-> s]

PyList(items) == [cls |-> "list", items |-> items]

\* the string with the given characters
Str(cs) == CHOOSE s \in {"", "1999", "2014 Jan", "Spring", "S1 [pii]",
                         "10.1234/a [doi]", "10.1234/c [pii]", "J 2014",
                         "J doi: 10.1234/b", "10.1234/d [doi]", "10.1234/a",
                         "10.1234/b", "10.1234/c", "10.1234/d"} :
              Chars(s) = cs

YearLen == 4     \* dp[:4]

\* cs[:n]
prefix(cs, n) == SubSeq(cs, 1, IF Len(cs) < n THEN Len(cs) ELSE n)

Digit == {"0", "1", "2", "3", "4", "5", "6", "7", "8", "9"}

digit_value(c) ==
    CASE c = "0" -> 0 [] c = "1" -> 1 [] c = "2" -> 2 [] c = "3" -> 3
      [] c = "4" -> 4 [] c = "5" -> 5 [] c = "6" -> 6 [] c = "7" -> 7
      [] c = "8" -> 8 [] c = "9" -> 9

Whitespace == {" ", "\t", "\n", "\r", "\f"}

\* str.strip()
RECURSIVE strip(_)
strip(cs) ==
    IF cs # <<>> /\ Head(cs) \in Whitespace THEN strip(Tail(cs))
    ELSE IF cs # <<>> /\ cs[Len(cs)] \in Whitespace
         THEN strip(SubSeq(cs, 1, Len(cs) - 1))
         ELSE cs

\* the number written by a sequence of digits
RECURSIVE decimal(_)
decimal(cs) ==
    IF cs = <<>> THEN 0
    ELSE 10 * decimal(SubSeq(cs, 1, Len(cs) - 1)) + digit_value(cs[Len(cs)])

\* int(s) of a string: blanks around and a sign before the digits are
\* accepted; err is ValueError when s does not write an integer
py_int(cs) ==
    LET t    == strip(cs)
        sign == t # <<>> /\ Head(t) \in {"+", "-"}
        body == IF sign THEN Tail(t) ELSE t
    IN  IF body = <<>> \/ \E k \in 1..Len(body) : body[k] \notin Digit
        THEN [err |-> "ValueError", ret |-> PyNone]
        ELSE [err |-> None,
              ret |-> PyInt(IF sign /\ Head(t) = "-"
                            THEN 0 - decimal(body) ELSE decimal(body))]

\* PubmedRecord.year
year(rec) ==
    LET dp == get(rec, "DP", None)
    IN  IF dp = None THEN [err |-> None, ret |-> PyNone]
        ELSE IF dp = "" THEN [err |-> None, ret |-> PyStr(dp)]
             ELSE py_int(prefix(Chars(dp), YearLen))

\* DOI_REGEX: 10. then DoiMinDigits to DoiMaxDigits digits, a slash, and one
\* or more characters other than those of DoiStop
DoiMinDigits == 4
DoiMaxDigits == 6
\* (the vertical tab, which the regexp excludes too, is in no text used)
DoiStop == {"\"", "'", "&", "<", "%"} \cup Whitespace

\* the position of the last character of the match of DOI_REGEX that starts
\* at position k of text (1-based), 0 when none starts there
doi_match_end(text, k) ==
    LET n  == Len(text)
        ds == {m \in DoiMinDigits..DoiMaxDigits :
                 /\ k + m + 4 <= n
                 /\ \A j \in 1..m : text[k + 2 + j] \in Digit
                 /\ text[k + m + 3] = "/"
                 /\ text[k + m + 4] \notin DoiStop}
    IN  IF k + 2 <= n /\ text[k] = "1" /\ text[k + 1] = "0"
           /\ text[k + 2] = "." /\ ds # {}
        THEN LET m == CHOOSE d \in ds : TRUE
                 ends == {e \in (k + m + 4)..n :
                            \A j \in (k + m + 4)..e : text[j] \notin DoiStop}
             IN  CHOOSE e \in ends : \A f \in ends : f <= e
        ELSE 0

\* re.findall(DOI_REGEX, text) from position k on: the matches, left to
\* right, none overlapping another
RECURSIVE findall_doi(_, _)
findall_doi(text, k) ==
    IF k > Len(text) THEN <<>>
    ELSE LET e == doi_match_end(text, k)
         IN  IF e = 0 THEN findall_doi(text, k + 1)
             ELSE <<SubSeq(text, k, e)>> \o findall_doi(text, e + 1)

\* sub in cs
contains(cs, sub) ==
    \E k \in 0..(Len(cs) - Len(sub)) : SubSeq(cs, k + 1, k + Len(sub)) = sub

\* ''.join([d for d in items if 'doi' in d])
RECURSIVE join_doi(_)
join_doi(items) ==
    IF items = <<>> THEN <<>>
    ELSE (IF contains(Chars(Head(items)), <<"d", "o", "i">>)
          THEN Chars(Head(items)) ELSE <<>>) \o join_doi(Tail(items))

\* _get_doi(rec), which PubmedRecord.get_doi returns
get_doi(rec) ==
    LET doi  == get(rec, "AID", get(rec, "SO", get(rec, "LID", PyNone)))
        text == IF isinstance(doi, "list") THEN join_doi(doi.items)
                ELSE Chars(doi.s)
        res  == findall_doi(text, 1)
    IN  IF isinstance(doi, "NoneType") \/ res = <<>>
        THEN [err |-> None, ret |-> PyNone]
        ELSE [err |-> None, ret |-> PyStr(Str(res[1]))]

\* the values of the fields of the records whose accessors are called
DPValues == {"", "1999", "2014 Jan", "Spring"}

AIDValues == {PyList(<<"S1 [pii]">>),
              PyList(<<"S1 [pii]", "10.1234/a [doi]">>),
              PyList(<<"10.1234/c [pii]">>)}

SOValues == {PyStr("J 2014"), PyStr("J doi: 10.1234/b")}

LIDValues == {PyStr("S1 [pii]"), PyStr("10.1234/d [doi]")}

\* a field left out, or present with one of the values
Opt(values) == {<<>>} \cup {<<v>> : v \in values}

\* the mapping holding the fields that opt gives a value
mapping_of(opt) ==
    [k \in {f \in DOMAIN opt : opt[f] # <<>>} |-> opt[k][1]]

FieldRecords ==
    {PubmedRecord(mapping_of([PMID |-> p, DP |-> dp, AID |-> aid,
                              SO |-> so, LID |-> lid])) :
        p \in Opt({"1"}), dp \in Opt(DPValues), aid \in Opt(AIDValues),
        so \in Opt(SOValues), lid \in Opt(LIDValues)}

\* a collection of one such record
InitRecord ==
    /\ recs \in {<<r>> : r \in FieldRecords}
    /\ exclude_ = <<>>
    /\ file = NoFile
    /\ op = Call("__init__", <<>>)
    /\ err = None
    /\ ret = None

\* recs[0].year
DoYear ==
    /\ recs # <<>>
    /\ Apply(Call("year", <<>>),
             Result(recs, exclude_, year(recs[1]).err, year(recs[1]).ret))

\* recs[0].pubmed_id
DoPubmedId ==
    /\ recs # <<>>
    /\ Apply(Call("pubmed_id", <<>>),
             Result(recs, exclude_, None, pubmed_id(recs[1])))

\* recs[0].get_doi()
DoGetDoi ==
    /\ recs # <<>>
    /\ Apply(Call("get_doi", <<>>),
             Result(recs, exclude_, get_doi(recs[1]).err,
                    get_doi(recs[1]).ret))

NextRecord == DoYear \/ DoPubmedId \/ DoGetDoi

SpecRecord == InitRecord /\ [][NextRecord]_vars

\* ---------------------------------------------------------------- summary
\* x <= y in Python 2: None sorts before every number, every number before
\* every string
py_rank(x) == CASE isinstance(x, "NoneType") -> 0
                [] isinstance(x, "int") -> 1
                [] isinstance(x, "str") -> 2

py_le(x, y) ==
    \/ py_rank(x) < py_rank(y)
    \/ /\ py_rank(x) = py_rank(y)
       /\ isinstance(x, "int") => x.i <= y.i

\* min(values) and max(values) of a non-empty sequence
py_min(values) ==
    values[CHOOSE k \in 1..Len(values) :
              /\ \A j \in 1..Len(values) : py_le(values[k], values[j])
              /\ \A j \in 1..(k - 1) : ~py_le(values[j], values[k])]

py_max(values) ==
    values[CHOOSE k \in 1..Len(values) :
              /\ \A j \in 1..Len(values) : py_le(values[j], values[k])
              /\ \A j \in 1..(k - 1) : ~py_le(values[k], values[j])]

\* str(x) of None, a number or a string, as the pieces of text it gives: a
\* number stands for its digits
py_str(x) == IF isinstance(x, "NoneType") THEN PyStr("None") ELSE x

\* Records.__repr__: ret is the text as the sequence of its pieces, the
\* numbers that '%i' and str() write among them
repr(self) ==
    LET n     == Len(self.recs)
        out   == <<PyStr("<Records | "), PyInt(n), PyStr(" entries")>>
        years == [k \in 1..n |-> year(self.recs[k])]
        bad   == {k \in 1..n : years[k].err # None}
        vals  == [k \in 1..n |-> years[k].ret]
        minyear == py_min(vals)
        maxyear == py_max(vals)
    IN  IF n = 0 THEN [err |-> None, ret |-> out \o <<PyStr(">")>>]
        ELSE IF bad # {}
        THEN [err |-> years[CHOOSE k \in bad : \A j \in bad : k <= j].err,
              ret |-> None]
        ELSE IF minyear = maxyear
        THEN [err |-> None, ret |-> out \o <<py_str(minyear), PyStr(">")>>]
        ELSE IF ~isinstance(minyear, "int") \/ ~isinstance(maxyear, "int")
        THEN [err |-> "TypeError", ret |-> None]
        ELSE [err |-> None,
              ret |-> out \o <<PyStr(" | "), maxyear, PyStr(" - "), minyear,
                               PyStr(">")>>]

\* records with and without a year, and one whose DP is not a date
r2014 == PubmedRecord([PMID |-> "1", DP |-> "2014 Jan"])
r1999 == PubmedRecord([PMID |-> "2", DP |-> "1999"])
rSpring == PubmedRecord([PMID |-> "1", DP |-> "Spring"])

YearItems == {r2014, r1999, rSpring, rA}

InitYears == InitOver(YearItems)

\* '%s' % recs
DoRepr ==
    /\ Fits(Self)
    /\ Apply(Call("__repr__", <<>>),
             Result(recs, exclude_, repr(Self).err, repr(Self).ret))

NextSummary == DoRepr

SpecSummary == InitYears /\ [][NextSummary]_vars

\* ------------------------------------------------- vocabulary of the claims
\* the elements of lst at the positions (1-based) in keep, in list order
Pick(lst, keep) ==
    LET nth(n) == CHOOSE k \in keep : Cardinality({j \in keep : j < k}) = n - 1
    IN  [n \in 1..Cardinality(keep) |-> lst[nth(n)]]

\* the elements of lst at the positions (0-based) not in ex, in list order
Unmarked(lst, ex) == Pick(lst, {k \in 1..Len(lst) : (k - 1) \notin Range(ex)})

\* the marks of ex that are positions of a list of length n
InRange(ex, n) == {m \in Range(ex) : 0 <= m /\ m < n}

AllRecords(values) ==
    \A k \in 1..Len(values) : isinstance(values[k], "PubmedRecord")

\* index designates an element of a list of length n
ValidIndex(index, n) == (0 - n) <= index /\ index < n

\* the 0-based position a valid index designates
Position(index, n) == IF index < 0 THEN index + n ELSE index

\* C1: in every reachable state every index in exclude_ is a valid position
\* of the list, 0 <= index < len.
ExcludeIndicesValid ==
    \A k \in 1..Len(exclude_) : 0 <= exclude_[k] /\ exclude_[k] < Len(recs)

\* C2: drop, called with in-range marks, leaves exactly the records that
\* were at unmarked positions, in their order, and empties exclude_.
DropRemovesMarked ==
    [][(op'.name = "drop" /\ ExcludeIndicesValid)
         => (recs' = Unmarked(recs, exclude_) /\ exclude_' = <<>>)]_vars

\* C3: insert on a collection whose exclude_ is non-empty raises
\* RuntimeError, whatever the index and the record, and changes neither the
\* list nor exclude_.
InsertGuard ==
    [][(op'.name = "insert" /\ exclude_ # <<>>)
         => (err' = "RuntimeError" /\ recs' = recs /\ exclude_' = exclude_)]_vars

\* C3 witness: an insert of a PubmedRecord at the end of a non-empty list
\* was refused because a mark was pending.
InsertGuardWitness ==
    /\ op.name = "insert"
    /\ err = "RuntimeError"
    /\ exclude_ # <<>>
    /\ op.args[1] = Len(recs)
    /\ isinstance(op.args[2], "PubmedRecord")

\* C4: append / extend / += / + handed a non-PubmedRecord element or a
\* non-Records operand raise TypeError and leave the list as it was.
BadArgument(call) ==
    \/ call.name = "append" /\ ~isinstance(call.args[1], "PubmedRecord")
    \/ call.name = "extend" /\ ~AllRecords(call.args[1])
    \/ call.name \in {"__iadd__", "__add__"}
          /\ ~isinstance(call.args[1], "Records")

TypeGuard ==
    [][BadArgument(op') => (err' = "TypeError" /\ recs' = recs)]_vars

\* C5: in every reachable state every element of the collection is a
\* PubmedRecord.
ElementsArePubmedRecords == AllRecords(recs)

\* C6: pop(index) with a valid index returns and removes the record at
\* index, unmarks the popped position, and every other mark designates
\* afterwards the record it designated before.
PopKeepsMarks ==
    [][(op'.name = "pop" /\ ValidIndex(op'.args[1], Len(recs)))
         => LET p == Position(op'.args[1], Len(recs))
                shift(m) == IF m > p THEN m - 1 ELSE m
            IN  /\ err' = None
                /\ ret' = recs[p + 1]
                /\ recs' = DelAt(recs, p)
                /\ InRange(exclude_', Len(recs'))
                     = {shift(m) : m \in InRange(exclude_, Len(recs)) \ {p}}]_vars

\* C7: append(r) and extend(rs) with PubmedRecords succeed in any state,
\* pending marks included, add the records at the end in order and leave
\* exclude_ alone.
AppendExtendGrow ==
    [][/\ (op'.name = "append" /\ isinstance(op'.args[1], "PubmedRecord"))
            => (/\ err' = None
                /\ recs' = Append(recs, op'.args[1])
                /\ exclude_' = exclude_)
       /\ (op'.name = "extend" /\ AllRecords(op'.args[1]))
            => (/\ err' = None
                /\ recs' = recs \o op'.args[1]
                /\ exclude_' = exclude_)]_vars

\* C8: loading the file that save wrote gives the records of the collection
\* at the positions not in exclude_, equal in content and in order; without
\* marks it gives the collection itself.
SaveLoadRoundTrip ==
    op.name = "read_records"
        => /\ err = None
           /\ ret.recs = Unmarked(recs, exclude_)
           /\ (exclude_ = <<>> => ret.recs = recs)

\* C8 witness: a file was loaded that was saved while a record was marked,
\* and a record without PMID came back.
SaveLoadWitness ==
    /\ op.name = "read_records"
    /\ err = None
    /\ InRange(exclude_, Len(recs)) # {}
    /\ rN \in Range(ret.recs)
    /\ Len(ret.recs) < Len(recs)

\* the positions (1-based) of lst that a selecting call asks for
Selected(call, lst) ==
    CASE call.name = "__getslice__" ->
            {k \in 1..Len(lst) : call.args[1] <= k - 1 /\ k - 1 < call.args[2]}
      [] call.name = "filter" -> {k \in 1..Len(lst) : lst[k] \in call.args[1]}
      [] call.name = "find" -> {k \in 1..Len(lst) : match(lst[k], call.args[1])}

\* C9: slicing, filtering and find give a new collection holding exactly the
\* selected records in source order with an empty exclude_, whatever the
\* source's exclude_, and leave the source's list and exclude_ unchanged.
SelectionIsNew ==
    [][op'.name \in {"__getslice__", "filter", "find"}
         => /\ err' = None
            /\ ret'.recs = Pick(recs, Selected(op', recs))
            /\ ret'.exclude_ = <<>>
            /\ recs' = recs
            /\ exclude_' = exclude_]_vars

\* C9 witness: a proper, non-empty slice was taken of a collection that
\* carries marks.
SelectionWitness ==
    /\ op.name = "__getslice__"
    /\ err = None
    /\ exclude_ # <<>>
    /\ ret.recs # <<>>
    /\ Len(ret.recs) < Len(recs)

\* two records with the same, present identifier
SameIdentifier(x, y) == pubmed_id(x) = pubmed_id(y) /\ pubmed_id(x) # None

\* C10: Records(set(a + b)) holds exactly one record per distinct
\* identifier: no two of its records share a PMID, and every record of a
\* and b is in it or has its PMID in it.
DedupByIdentifier ==
    (op.name = "dedup" /\ err = None)
        => /\ \A i, j \in 1..Len(ret.recs) :
                 i # j => ~SameIdentifier(ret.recs[i], ret.recs[j])
           /\ \A x \in Range(recs \o op.args[1].items) :
                 \E k \in 1..Len(ret.recs) :
                    ret.recs[k] = x \/ SameIdentifier(ret.recs[k], x)

\* the indices a transcript shows answered "n" before the first "q"
AnsweredNo(tty, answers) ==
    {tty.shown[k] : k \in {j \in 1..Len(tty.shown) :
                              /\ answers[j] = "n"
                              /\ \A i \in 1..(j - 1) : answers[i] # "q"}}

\* C11: whatever the marks at the start and whatever the answers, browse
\* does not fail and leaves in exclude_ the indices already marked together
\* with every index answered "n" before the first "q", and no other index.
BrowseAddsMarks ==
    [][op'.name = "browse"
         => /\ err' = None
            /\ Range(exclude_') =
                  Range(exclude_) \cup AnsweredNo(ret', op'.args[2])]_vars

\* the indices 0 .. n-1 that ex does not mark, in increasing order
UnmarkedIndices(n, ex) == Unmarked([k \in 1..n |-> k - 1], ex)

\* how many of the first n answers are read: up to the first "q", included
ReadUntilQuit(answers, n) ==
    LET quits == {k \in 1..n : answers[k] = "q"}
    IN  IF quits = {} THEN n
        ELSE CHOOSE k \in quits : \A j \in quits : k <= j

\* C12: browse displays and prompts for exactly the records at unmarked
\* indices, in increasing index order, up to the first answer "q": a marked
\* record is never displayed, and after "q" nothing is displayed or read.
BrowseSkipsMarked ==
    [][op'.name = "browse"
         => LET todo == UnmarkedIndices(Len(recs), exclude_)
                n    == ReadUntilQuit(op'.args[2], Len(todo))
            IN  /\ ret'.shown = SubSeq(todo, 1, n)
                /\ ret'.read = n]_vars

\* the first four characters of field DP of rec are digits
ParseableYear(rec) ==
    /\ "DP" \in DOMAIN rec.d
    /\ Len(Chars(rec.d.DP)) >= YearLen
    /\ \A k \in 1..YearLen : Chars(rec.d.DP)[k] \in Digit

\* the integer those four digits write
YearOf(rec) == decimal(prefix(Chars(rec.d.DP), YearLen))

\* C13: the year of a record never fails: it is the integer written by the
\* first four characters of DP when those are digits, and None when DP is
\* missing or malformed; the identifier of a record without PMID is None.
YearNeverFails ==
    /\ op.name = "year"
          => /\ err = None
             /\ ret = IF ParseableYear(recs[1]) THEN PyInt(YearOf(recs[1]))
                      ELSE PyNone
    /\ (op.name = "pubmed_id" /\ "PMID" \notin DOMAIN recs[1].d)
          => (err = None /\ ret = None)

\* the DOI-shaped substrings of the value of a field, in order
RECURSIVE DoisIn(_)
DoisIn(v) ==
    IF isinstance(v, "str") THEN findall_doi(Chars(v.s), 1)
    ELSE IF v.items = <<>> THEN <<>>
         ELSE findall_doi(Chars(Head(v.items)), 1)
                 \o DoisIn(PyList(Tail(v.items)))

\* the fields of rec, among AID, SO and LID in this order, that hold a DOI
DoiFields(rec) ==
    SelectSeq(<<"AID", "SO", "LID">>,
              LAMBDA f : f \in DOMAIN rec.d /\ DoisIn(rec.d[f]) # <<>>)

\* C14: get_doi returns the first DOI of the first field among AID, SO and
\* LID that holds a DOI-shaped substring, and None only when none of the
\* three holds one.
GetDoiByPriority ==
    op.name = "get_doi"
       => /\ err = None
          /\ ret = IF DoiFields(recs[1]) = <<>> THEN PyNone
                   ELSE PyStr(Str(DoisIn(recs[1].d[DoiFields(recs[1])[1]])[1]))

\* the years of the records of lst that have a parseable one
ParseableYears(lst) ==
    {YearOf(lst[k]) : k \in {j \in 1..Len(lst) : ParseableYear(lst[j])}}

\* the numbers a summary writes after the count
YearsWritten(text) ==
    {text[k].i : k \in {j \in 4..Len(text) : isinstance(text[j], "int")}}

\* C15: the summary of a collection never fails, writes the length of the
\* collection as the number of entries and, when some record has a
\* parseable year, the least and the greatest of the parseable years.
SummaryReportsYears ==
    op.name = "__repr__"
       => /\ err = None
          /\ ret[2] = PyInt(Len(recs))
          /\ LET ys == ParseableYears(recs)
             IN  ys # {} =>
                    YearsWritten(ret) =
                       {CHOOSE y \in ys : \A z \in ys : y <= z,
                        CHOOSE y \in ys : \A z \in ys : z <= y}

====
